---- MODULE Spec2Model ----
(***************************************************************************)
(* Model of upload_to_owncloud.py: detection of changed/new files with     *)
(* git, classification into logsheets / teams / images, and the upload of  *)
(* each file to ownCloud with WebDAV MKCOL and PUT requests.               *)
(*                                                                         *)
(* A path is a sequence of tokens; "/" is a token of its own, so that      *)
(* startswith, endswith, dirname, basename and split('/') are computed on  *)
(* the sequence as the code computes them on the string.                   *)
(***************************************************************************)
EXTENDS Integers, Sequences, FiniteSets, TLC

\* Largest number of paths one git command reports.
MaxOut == 1

\* Longest list filter_relevant_files is called on alone.
MaxLen == 3

VARIABLES
  pc,              \* where main is: start, detect, classify, upload, done, aborted
  exitCode,        \* the exit status of the process, -1 while it runs
  is_ci,           \* get_git_changed_files: CI == "true"
  cmds,            \* the git commands run so far, each with its exit status
  changed_files,   \* main: the lists get_git_changed_files returned
  new_files,
  relevant_json,   \* main: filter_relevant_files(json_files)
  relevant_images, \* main: filter_relevant_files(new_files)
  cat,             \* which of the three upload loops main is in
  idx,             \* the position of that loop in its list
  cur,             \* the file being processed: its remote path and progress
  requests,        \* every HTTP request issued, with the response status
  remote,          \* the objects stored on ownCloud by this run
  stdout,          \* the lines printed
  file_list,       \* filter_relevant_files called alone: its argument
  result           \* and the value it returned

vars == <<pc, exitCode, is_ci, cmds, changed_files, new_files,
          relevant_json, relevant_images, cat, idx, cur, requests, remote,
          stdout, file_list, result>>

----------------------------------------------------------------------------
(* The working tree: the paths git can report, in git's (sorted) order.    *)

AllPaths ==
  << <<"images", "/", "s", "/", "y", ".json">>,
     <<"images", "/", "x", ".png">>,
     <<"logsheets", "/", "a", ".json">>,
     <<"logsheets", "/", "b", ".txt">>,
     <<"teams", "/", "t", ".json">> >>

Paths == { AllPaths[i] : i \in 1..Len(AllPaths) }

\* The documents read_json_file can find in a record file.
Records ==
  { [id |-> <<"A">>, version |-> <<"1">>],
    [version |-> <<"1">>],
    [id |-> <<"A">>] }

\* Statuses the server answers to MKCOL and to PUT.
MkcolStatuses == {200, 201, 405, 500}
PutStatuses == {201, 500}

----------------------------------------------------------------------------
(* String helpers.                                                         *)

StartsWith(s, pre) ==
  Len(s) >= Len(pre) /\ SubSeq(s, 1, Len(pre)) = pre

EndsWith(s, suf) ==
  Len(s) >= Len(suf) /\ SubSeq(s, Len(s) - Len(suf) + 1, Len(s)) = suf

\* p.rfind('/') + 1: the position just after the last slash, 0 without one.
LastSlash(s) ==
  LET I == { i \in 1..Len(s) : s[i] = "/" }
  IN  IF I = {} THEN 0 ELSE CHOOSE i \in I : \A j \in I : j <= i

RECURSIVE RStrip(_)
RStrip(s) ==
  IF s # <<>> /\ s[Len(s)] = "/" THEN RStrip(SubSeq(s, 1, Len(s) - 1)) ELSE s

RECURSIVE LStrip(_)
LStrip(s) ==
  IF s # <<>> /\ s[1] = "/" THEN LStrip(Tail(s)) ELSE s

Strip(s) == RStrip(LStrip(s))

\* os.path.dirname
dirname(p) ==
  LET head == SubSeq(p, 1, LastSlash(p))
  IN  IF head # <<>> /\ (\E i \in 1..Len(head) : head[i] # "/")
      THEN RStrip(head) ELSE head

\* os.path.basename
basename(p) == SubSeq(p, LastSlash(p) + 1, Len(p))

\* s.split('/')
RECURSIVE Split(_)
Split(s) ==
  LET I == { i \in 1..Len(s) : s[i] = "/" }
  IN  IF I = {} THEN << s >>
      ELSE LET i == CHOOSE k \in I : \A j \in I : k <= j
           IN  << SubSeq(s, 1, i - 1) >> \o Split(SubSeq(s, i + 1, Len(s)))

----------------------------------------------------------------------------
(* filter_relevant_files                                                   *)

\* Mutant: the .json suffix test of the first rule is forgotten.
IsLogsheetPathPrefixOnly(p) == StartsWith(p, <<"logsheets", "/">>)

IsLogsheetPath(p) ==
  StartsWith(p, <<"logsheets", "/">>) /\ EndsWith(p, <<".json">>)

IsTeamPath(p) ==
  StartsWith(p, <<"teams", "/">>) /\ EndsWith(p, <<".json">>)

IsImagePath(p) == StartsWith(p, <<"images", "/">>)

\* The if / elif / elif chain of the loop body: the list a path is appended to.
Category(p) ==
  IF IsLogsheetPath(p) THEN "logsheets"
  ELSE IF IsTeamPath(p) THEN "teams"
  ELSE IF IsImagePath(p) THEN "images"
  ELSE "none"

filter_relevant_files(files) ==
  [ logsheets |-> SelectSeq(files, LAMBDA p : Category(p) = "logsheets"),
    teams     |-> SelectSeq(files, LAMBDA p : Category(p) = "teams"),
    images    |-> SelectSeq(files, LAMBDA p : Category(p) = "images") ]

----------------------------------------------------------------------------
(* Remote paths and create_directory                                       *)

LogsheetRemotePath(data) ==
  <<"logsheets", "/">> \o data.id \o <<"/">> \o data.version \o <<".json">>

TeamRemotePath(data) ==
  <<"teams", "/">> \o data.id \o <<"/">> \o data.version \o <<".json">>

\* Mutant: the image keeps its directories instead of its basename.
ImageRemotePathKeepsDirs(file_path) ==
  <<"images", "/">> \o SubSeq(file_path, 3, Len(file_path))

ImageRemotePath(file_path) == <<"images", "/">> \o basename(file_path)

\* The loop of create_directory: the current_path of every MKCOL, in order.
RECURSIVE MkcolPaths(_, _)
MkcolPaths(parts, current_path) ==
  IF parts = <<>> THEN <<>>
  ELSE IF Head(parts) = <<>> THEN MkcolPaths(Tail(parts), current_path)
  ELSE LET next == IF current_path # <<>>
                   THEN current_path \o <<"/">> \o Head(parts)
                   ELSE Head(parts)
       IN  << next >> \o MkcolPaths(Tail(parts), next)

\* Mutant: only the leaf directory is created.
CreateLeafOnly(remote_path) ==
  IF remote_path = <<>> THEN <<>> ELSE << Strip(remote_path) >>

create_directory_paths(remote_path) ==
  IF remote_path = <<>> THEN <<>>
  ELSE MkcolPaths(Split(Strip(remote_path)), <<>>)

\* requests' Response.raise_for_status: raises for 4xx and 5xx only.
RaiseForStatus(status) == 400 <= status /\ status < 600

\* Mutant: 405 is not tolerated.
MkcolRaisesOn405(status) == status # 201 /\ RaiseForStatus(status)

\* create_directory, lines 189-190: whether the MKCOL response raises.
MkcolRaises(status) == status \notin {201, 405} /\ RaiseForStatus(status)

\* Mutant: the response of the PUT is not checked.
PutNeverRaises(status) == FALSE

\* upload_file_to_owncloud, line 162.
PutRaises(status) == RaiseForStatus(status)

----------------------------------------------------------------------------
(* get_git_changed_files                                                   *)

\* The lines of a command's stdout listing the paths of S ("" when S is empty).
StdoutLines(S) ==
  IF S = {} THEN << <<>> >> ELSE SelectSeq(AllPaths, LAMBDA p : p \in S)

\* What one git command can do: exit non-zero, or exit 0 and print its lines.
BranchOutcomes ==
  { [exit |-> 128, lines |-> << <<>> >>],
    [exit |-> 0, lines |-> << <<"origin", "/", "main">> >>] }

FileOutcomes ==
  { [exit |-> 128, lines |-> << <<>> >>] } \cup
  { [exit |-> 0, lines |-> StdoutLines(S)] :
      S \in { T \in SUBSET Paths : Cardinality(T) <= MaxOut } }

\* [f.strip() for f in result.stdout.strip().split('\n') if f.strip()]
ParseLines(lines) == SelectSeq(lines, LAMBDA f : f # <<>>)

\* list(set(xs)), in the order git lists the paths; the order of changed_files
\* is never read, only its members are (line 224).
RECURSIVE SeqToSet(_)
SeqToSet(xs) == IF xs = <<>> THEN {} ELSE {Head(xs)} \cup SeqToSet(Tail(xs))

ListOfSet(S) == SelectSeq(AllPaths, LAMBDA p : p \in S)

Ran(cmd, out) == [cmd |-> cmd, exit |-> out[cmd].exit]

GitRaise(log) ==
  [raised |-> TRUE, changed |-> <<>>, new |-> <<>>, cmds |-> log]

GitReturn(changed, new, log) ==
  [raised |-> FALSE, changed |-> changed, new |-> new, cmds |-> log]

\* Lines 42-68: every command runs with check=True.
GitChangedFilesCi(out) ==
  LET l1 == << Ran("rev-parse HEAD", out) >>
      l2 == l1 \o << Ran("diff ACMR origin...HEAD", out) >>
      l3 == l2 \o << Ran("diff A origin...HEAD", out) >>
  IN  IF out["rev-parse HEAD"].exit # 0 THEN GitRaise(l1)
      ELSE IF out["diff ACMR origin...HEAD"].exit # 0 THEN GitRaise(l2)
      ELSE IF out["diff A origin...HEAD"].exit # 0 THEN GitRaise(l3)
      ELSE GitReturn(ParseLines(out["diff ACMR origin...HEAD"].lines),
                     ParseLines(out["diff A origin...HEAD"].lines), l3)

\* Lines 71-90: the try block holds the tracking-branch lookup and the diff
\* against it; except CalledProcessError catches the failure of either.
GitTryCommitted(out) ==
  LET l1 == << Ran("rev-parse @{u}", out) >>
      l2 == l1 \o << Ran("diff ACMR upstream...HEAD", out) >>
  IN  IF out["rev-parse @{u}"].exit # 0
      THEN [changed_committed |-> <<>>, cmds |-> l1]
      ELSE IF out["diff ACMR upstream...HEAD"].exit # 0
      THEN [changed_committed |-> <<>>, cmds |-> l2]
      ELSE [changed_committed |->
              ParseLines(out["diff ACMR upstream...HEAD"].lines),
            cmds |-> l2]

\* Lines 70-118.
GitChangedFilesLocal(out) ==
  LET t  == GitTryCommitted(out)
      l3 == t.cmds \o << Ran("diff ACMR HEAD", out) >>
      l4 == l3 \o << Ran("diff --cached ACMR", out) >>
      l5 == l4 \o << Ran("ls-files --others", out) >>
      changed_unstaged == ParseLines(out["diff ACMR HEAD"].lines)
      changed_staged == ParseLines(out["diff --cached ACMR"].lines)
  IN  IF out["diff ACMR HEAD"].exit # 0 THEN GitRaise(l3)
      ELSE IF out["diff --cached ACMR"].exit # 0 THEN GitRaise(l4)
      ELSE IF out["ls-files --others"].exit # 0 THEN GitRaise(l5)
      ELSE GitReturn(
             ListOfSet(SeqToSet(t.changed_committed \o changed_unstaged
                                \o changed_staged)),
             ParseLines(out["ls-files --others"].lines), l5)

get_git_changed_files(ci, out) ==
  IF ci THEN GitChangedFilesCi(out) ELSE GitChangedFilesLocal(out)

----------------------------------------------------------------------------
(* main                                                                    *)

NoLists == [logsheets |-> <<>>, teams |-> <<>>, images |-> <<>>]

\* No document: an image, or a record file json.load could not parse.
NoData == [unparsed |-> TRUE]

Idle == [phase |-> "idle", local |-> <<>>, data |-> NoData,
         remote_path |-> <<>>, dirs |-> <<>>, k |-> 0]

\* The orders list(set(...)) can give the members of S.
Perms(S) ==
  { s \in [1..Cardinality(S) -> S] :
      \A i, j \in 1..Cardinality(S) : i # j => s[i] # s[j] }

MainInit ==
  /\ pc = "start"
  /\ exitCode = -1
  /\ is_ci = FALSE
  /\ cmds = <<>>
  /\ changed_files = <<>>
  /\ new_files = <<>>
  /\ relevant_json = NoLists
  /\ relevant_images = NoLists
  /\ cat = "logsheets"
  /\ idx = 1
  /\ cur = Idle
  /\ requests = <<>>
  /\ remote = {}
  /\ stdout = <<>>

Init ==
  /\ MainInit
  /\ file_list = <<>>
  /\ result = NoLists

\* An exception reaches the top level: the interpreter exits with status 1.
Abort ==
  /\ pc' = "aborted"
  /\ exitCode' = 1

\* Lines 216-219: load_config finds the token or raises ValueError.
LoadConfig ==
  /\ pc = "start"
  /\ stdout' = Append(stdout, [line |-> "Detecting changed files..."])
  /\ \E found \in BOOLEAN :
       IF found THEN pc' = "detect" /\ exitCode' = exitCode ELSE Abort
  /\ UNCHANGED <<file_list, result>>
  /\ UNCHANGED <<is_ci, cmds, changed_files, new_files, relevant_json,
                 relevant_images, cat, idx, cur, requests, remote>>

GitResult(r) ==
  /\ cmds' = r.cmds
  /\ IF r.raised
     THEN Abort /\ UNCHANGED <<changed_files, new_files>>
     ELSE /\ changed_files' = r.changed
          /\ new_files' = r.new
          /\ pc' = "classify"
          /\ exitCode' = exitCode

\* Line 221.
GetGitChangedFiles ==
  /\ pc = "detect"
  /\ \E ci \in BOOLEAN :
       /\ is_ci' = ci
       /\ IF ci
          THEN \E a \in BranchOutcomes : \E b, c \in FileOutcomes :
                 GitResult(get_git_changed_files(TRUE,
                   [cmd \in {"rev-parse HEAD", "diff ACMR origin...HEAD",
                             "diff A origin...HEAD"} |->
                      IF cmd = "rev-parse HEAD" THEN a
                      ELSE IF cmd = "diff ACMR origin...HEAD" THEN b ELSE c]))
          ELSE \E a \in BranchOutcomes : \E b, c, d, e \in FileOutcomes :
                 GitResult(get_git_changed_files(FALSE,
                   [cmd \in {"rev-parse @{u}", "diff ACMR upstream...HEAD",
                             "diff ACMR HEAD", "diff --cached ACMR",
                             "ls-files --others"} |->
                      IF cmd = "rev-parse @{u}" THEN a
                      ELSE IF cmd = "diff ACMR upstream...HEAD" THEN b
                      ELSE IF cmd = "diff ACMR HEAD" THEN c
                      ELSE IF cmd = "diff --cached ACMR" THEN d ELSE e]))
  /\ UNCHANGED <<file_list, result>>
  /\ UNCHANGED <<relevant_json, relevant_images, cat, idx, cur, requests,
                 remote, stdout>>

\* Line 224: the members of json_files, list(set(changed_files + new_files)).
JsonInput(changed, new) == SeqToSet(changed \o new)

\* Mutant: the images are taken from the changed files too.
ImageInputChangedAndNew(changed, new) == changed \o new

\* Line 228: the list the images are taken from.
ImageInput(changed, new) == new

\* Mutant: the images of json_files are counted, not those of new_files.
TotalFilesAnyImage(rj, ri) ==
  Len(rj.logsheets) + Len(rj.teams) + Len(rj.images)

\* Lines 230-234.
TotalFiles(rj, ri) == Len(rj.logsheets) + Len(rj.teams) + Len(ri.images)

\* Lines 240-253: the summary, and the new logsheets and teams.
FoundLines(rj, ri, new_json) ==
  << [line |-> "Found",
      total |-> TotalFiles(rj, ri),
      logsheets |-> Len(rj.logsheets),
      teams |-> Len(rj.teams),
      images |-> Len(ri.images)] >>
  \o (IF new_json.logsheets # <<>>
      THEN << [line |-> "New logsheets", files |-> new_json.logsheets] >>
      ELSE <<>>)
  \o (IF new_json.teams # <<>>
      THEN << [line |-> "New teams", files |-> new_json.teams] >>
      ELSE <<>>)

\* Lines 224-253.
SelectFiles ==
  /\ pc = "classify"
  /\ \E json_files \in Perms(JsonInput(changed_files, new_files)) :
       LET rj == filter_relevant_files(json_files)
           ri == filter_relevant_files(ImageInput(changed_files, new_files))
           total_files == TotalFiles(rj, ri)
       IN  /\ relevant_json' = rj
           /\ relevant_images' = ri
           /\ IF total_files = 0
              THEN /\ stdout' = Append(stdout, [line |-> "No relevant files"])
                   /\ pc' = "done"
                   /\ exitCode' = 0
              ELSE /\ stdout' = stdout \o
                        FoundLines(rj, ri, filter_relevant_files(new_files))
                   /\ pc' = "upload"
                   /\ exitCode' = exitCode
  /\ cat' = "logsheets"
  /\ idx' = 1
  /\ UNCHANGED <<file_list, result>>
  /\ UNCHANGED <<is_ci, cmds, changed_files, new_files, cur, requests, remote>>

----------------------------------------------------------------------------
(* The three upload loops of main, lines 255-264                           *)

\* Mutant: the teams loop runs before the logsheets loop.
LoopListTeamsFirst(c) ==
  IF c = "images" THEN relevant_images.images
  ELSE IF c = "logsheets" THEN relevant_json.teams
  ELSE relevant_json.logsheets

LoopList(c) ==
  IF c = "images" THEN relevant_images.images ELSE relevant_json[c]

AtFile(c) ==
  /\ pc = "upload"
  /\ cat = c
  /\ cur.phase = "idle"
  /\ idx <= Len(LoopList(c))

\* upload_file_to_owncloud, lines 149-153: the directories to create first.
StartUpload(file_path, data, remote_path) ==
  LET remote_dir == dirname(remote_path)
      dirs == IF remote_dir # <<>> THEN create_directory_paths(remote_dir)
              ELSE <<>>
  IN  cur' = [phase |-> IF dirs = <<>> THEN "put" ELSE "mkcol",
              local |-> file_path, data |-> data,
              remote_path |-> remote_path, dirs |-> dirs, k |-> 0]

\* Mutant: the KeyError is swallowed and the process does not exit.
ReadFailedSwallowed(file_path, data) ==
  /\ cur' = [Idle EXCEPT !.phase = "read", !.local = file_path,
                         !.data = data]
  /\ UNCHANGED <<pc, exitCode>>

\* The exception leaves the frame of the file where it was raised.
ReadFailed(file_path, data) ==
  /\ cur' = [Idle EXCEPT !.phase = "read", !.local = file_path,
                         !.data = data]
  /\ Abort

HasKeys(data) == "id" \in DOMAIN data /\ "version" \in DOMAIN data

\* process_logsheet, lines 195-197 up to the first request.
ProcessLogsheet ==
  /\ AtFile("logsheets")
  /\ \E data \in Records \cup {NoData} :
       IF HasKeys(data)
       THEN /\ StartUpload(LoopList(cat)[idx], data, LogsheetRemotePath(data))
            /\ UNCHANGED <<pc, exitCode>>
       ELSE ReadFailed(LoopList(cat)[idx], data)
  /\ UNCHANGED <<file_list, result>>
  /\ UNCHANGED <<is_ci, cmds, changed_files, new_files, relevant_json,
                 relevant_images, cat, idx, requests, remote, stdout>>

\* process_team, lines 202-204 up to the first request.
ProcessTeam ==
  /\ AtFile("teams")
  /\ \E data \in Records \cup {NoData} :
       IF HasKeys(data)
       THEN /\ StartUpload(LoopList(cat)[idx], data, TeamRemotePath(data))
            /\ UNCHANGED <<pc, exitCode>>
       ELSE ReadFailed(LoopList(cat)[idx], data)
  /\ UNCHANGED <<file_list, result>>
  /\ UNCHANGED <<is_ci, cmds, changed_files, new_files, relevant_json,
                 relevant_images, cat, idx, requests, remote, stdout>>

\* process_image, lines 209-211 up to the first request.
ProcessImage ==
  /\ AtFile("images")
  /\ StartUpload(LoopList(cat)[idx], NoData,
                 ImageRemotePath(LoopList(cat)[idx]))
  /\ UNCHANGED <<file_list, result>>
  /\ UNCHANGED <<pc, exitCode, is_ci, cmds, changed_files, new_files,
                 relevant_json, relevant_images, cat, idx, requests, remote,
                 stdout>>

\* create_directory, lines 176-190: one turn of the loop, one MKCOL.
CreateDirectory ==
  /\ pc = "upload"
  /\ cur.phase = "mkcol"
  /\ \E status \in MkcolStatuses :
       /\ requests' = Append(requests,
            [method |-> "MKCOL", path |-> cur.dirs[cur.k + 1],
             local |-> cur.local, status |-> status])
       /\ IF MkcolRaises(status)
          THEN Abort /\ cur' = cur
          ELSE /\ cur' = [cur EXCEPT !.k = cur.k + 1,
                            !.phase = IF cur.k + 1 = Len(cur.dirs)
                                      THEN "put" ELSE "mkcol"]
               /\ UNCHANGED <<pc, exitCode>>
  /\ UNCHANGED <<file_list, result>>
  /\ UNCHANGED <<is_ci, cmds, changed_files, new_files, relevant_json,
                 relevant_images, cat, idx, remote, stdout>>

\* The object a successful PUT leaves at remote_path: the bytes of local_path.
Store(objects, remote_path, local_path) ==
  { o \in objects : o.path # remote_path }
    \cup { [path |-> remote_path, content |-> local_path] }

\* upload_file_to_owncloud, lines 155-163: open the file, PUT it, print.
PutFile ==
  /\ pc = "upload"
  /\ cur.phase = "put"
  /\ \E opened \in BOOLEAN :
       IF ~opened
       THEN Abort /\ UNCHANGED <<cur, idx, requests, remote, stdout>>
       ELSE \E status \in PutStatuses :
              /\ requests' = Append(requests,
                   [method |-> "PUT", path |-> cur.remote_path,
                    local |-> cur.local, status |-> status])
              /\ IF PutRaises(status)
                 THEN Abort /\ UNCHANGED <<cur, idx, remote, stdout>>
                 ELSE /\ remote' = Store(remote, cur.remote_path, cur.local)
                      /\ stdout' = Append(stdout,
                           [line |-> "Uploaded", local |-> cur.local,
                            remote_path |-> cur.remote_path])
                      /\ cur' = Idle
                      /\ idx' = idx + 1
                      /\ UNCHANGED <<pc, exitCode>>
  /\ UNCHANGED <<file_list, result>>
  /\ UNCHANGED <<is_ci, cmds, changed_files, new_files, relevant_json,
                 relevant_images, cat>>

\* The end of the logsheets loop and of the teams loop.
NextLoop ==
  /\ pc = "upload"
  /\ cur.phase = "idle"
  /\ cat \in {"logsheets", "teams"}
  /\ idx > Len(LoopList(cat))
  /\ cat' = IF cat = "logsheets" THEN "teams" ELSE "images"
  /\ idx' = 1
  /\ UNCHANGED <<file_list, result>>
  /\ UNCHANGED <<pc, exitCode, is_ci, cmds, changed_files, new_files,
                 relevant_json, relevant_images, cur, requests, remote,
                 stdout>>

\* Line 264, after the images loop; main returns and the process exits 0.
UploadComplete ==
  /\ pc = "upload"
  /\ cur.phase = "idle"
  /\ cat = "images"
  /\ idx > Len(LoopList(cat))
  /\ stdout' = Append(stdout, [line |-> "Upload complete."])
  /\ pc' = "done"
  /\ exitCode' = 0
  /\ UNCHANGED <<file_list, result>>
  /\ UNCHANGED <<is_ci, cmds, changed_files, new_files, relevant_json,
                 relevant_images, cat, idx, cur, requests, remote>>

Next ==
  \/ LoadConfig
  \/ GetGitChangedFiles
  \/ SelectFiles
  \/ ProcessLogsheet
  \/ ProcessTeam
  \/ ProcessImage
  \/ CreateDirectory
  \/ PutFile
  \/ NextLoop
  \/ UploadComplete

Spec == Init /\ [][Next]_vars

----------------------------------------------------------------------------
(* filter_relevant_files on its own: any list of paths, in any order, with *)
(* repetitions.                                                            *)

Lists == UNION { [1..n -> Paths] : n \in 0..MaxLen }

FilterInit ==
  /\ MainInit
  /\ file_list \in Lists
  /\ result = NoLists

FilterRelevantFiles ==
  /\ pc = "start"
  /\ result = NoLists
  /\ result' = filter_relevant_files(file_list)
  /\ pc' = "done"
  /\ UNCHANGED <<exitCode, is_ci, cmds, changed_files, new_files,
                 relevant_json, relevant_images, cat, idx, cur, requests,
                 remote, stdout, file_list>>

FilterNext == FilterRelevantFiles

SpecFilter == FilterInit /\ [][FilterNext]_vars

----------------------------------------------------------------------------
(* Vocabulary of the properties.  The rules and paths are written out here *)
(* as the specification words them, not taken from the operators above.    *)

Members(xs) == { xs[i] : i \in 1..Len(xs) }

Rule1(p) ==
  Len(p) >= 2 /\ p[1] = "logsheets" /\ p[2] = "/" /\ p[Len(p)] = ".json"

Rule2(p) ==
  Len(p) >= 2 /\ p[1] = "teams" /\ p[2] = "/" /\ p[Len(p)] = ".json"

Rule3(p) == Len(p) >= 2 /\ p[1] = "images" /\ p[2] = "/"

FirstMatch(p) ==
  IF Rule1(p) THEN "logsheets"
  ELSE IF Rule2(p) THEN "teams"
  ELSE IF Rule3(p) THEN "images"
  ELSE "none"

\* main has chosen the files to upload (lines 224-228 have run).
PastSelection ==
  \/ pc \in {"upload", "done"}
  \/ pc = "aborted" /\ cur.phase # "idle"

Last(xs) == xs[Len(xs)]

PutIndexes == { i \in 1..Len(requests) : requests[i].method = "PUT" }

MkcolIndexes == { i \in 1..Len(requests) : requests[i].method = "MKCOL" }

\* A 4xx or 5xx status.
ErrorStatus(status) == 400 <= status /\ status < 600

\* C1: filter_relevant_files puts every path of its argument in the one
\* category of the first rule it matches (logsheets/ + .json, teams/ + .json,
\* images/), and a path matching no rule in no category.
C1_FirstMatchingRule ==
  pc = "done" =>
    \A p \in Paths : \A c \in {"logsheets", "teams", "images"} :
      p \in Members(result[c])
        <=> (p \in Members(file_list) /\ FirstMatch(p) = c)

C1_Witness ==
  /\ pc = "done"
  /\ <<"images", "/", "s", "/", "y", ".json">> \in Members(result.images)
  /\ <<"logsheets", "/", "a", ".json">> \in Members(result.logsheets)
  /\ <<"logsheets", "/", "b", ".txt">> \in Members(file_list)

\* C2: the logsheet and team files main selects are exactly the logsheet and
\* team paths of changed \cup new; the image files it selects are exactly the
\* image paths of new alone; no request is ever made for an image that is
\* in changed but not in new, nor for any file that was not selected.
C2_SelectedFiles ==
  PastSelection =>
    LET changed == Members(changed_files)
        new == Members(new_files)
    IN  /\ Members(relevant_json.logsheets)
             = { p \in changed \cup new : FirstMatch(p) = "logsheets" }
        /\ Members(relevant_json.teams)
             = { p \in changed \cup new : FirstMatch(p) = "teams" }
        /\ Members(relevant_images.images)
             = { p \in new : FirstMatch(p) = "images" }
        /\ \A i \in 1..Len(requests) :
             /\ FirstMatch(requests[i].local) \in {"logsheets", "teams"}
                  => requests[i].local \in changed \cup new
             /\ FirstMatch(requests[i].local) = "images"
                  => requests[i].local \in new
             /\ FirstMatch(requests[i].local) # "none"

C2_Witness ==
  /\ pc = "done"
  /\ \E p \in Members(changed_files) \ Members(new_files) : Rule3(p)
  /\ \E i \in PutIndexes :
       /\ Rule1(requests[i].local) \/ Rule2(requests[i].local)
       /\ requests[i].local \in Members(changed_files) \ Members(new_files)
  /\ \E i \in PutIndexes :
       requests[i].local \in Members(new_files) \ Members(changed_files)

\* C3: the requests go out one after the other, every request for a logsheet
\* before every request for a team, every request for a team before every
\* request for an image, and the requests of one file are consecutive.
Rank(p) ==
  IF FirstMatch(p) = "logsheets" THEN 1
  ELSE IF FirstMatch(p) = "teams" THEN 2 ELSE 3

\* (Stated on neighbours: a file met again later is the file of the very next
\* request too, which by induction makes its requests consecutive.)
C3_CategoryOrder ==
  \A i \in 1..Len(requests) - 1 :
    /\ Rank(requests[i].local) <= Rank(requests[i + 1].local)
    /\ \A j \in i + 1..Len(requests) :
         requests[i].local = requests[j].local
           => requests[i + 1].local = requests[i].local

C3_Witness ==
  /\ pc = "done"
  /\ \A n \in 1..3 : \E i \in PutIndexes : Rank(requests[i].local) = n
  /\ \E i \in MkcolIndexes : Rank(requests[i].local) = 3

\* C4 as claimed: a MKCOL answered 201 or 405 lets the run continue, and a
\* MKCOL answered with any other status aborts the run there, before the PUT.
C4_AnyOtherStatusAborts ==
  \A i \in MkcolIndexes :
    IF requests[i].status \notin {201, 405}
    THEN pc = "aborted" /\ exitCode = 1 /\ i = Len(requests)
    ELSE ~(pc = "aborted" /\ cur.phase = "mkcol" /\ i = Len(requests))

\* C4 as amended: a MKCOL answered 201, 405 or any status outside 400..599
\* lets the run continue; a MKCOL answered with any other 4xx or 5xx status
\* aborts the run there, before the PUT of the file.
C4_OtherErrorStatusAborts ==
  \A i \in MkcolIndexes :
    IF requests[i].status \notin {201, 405} /\ ErrorStatus(requests[i].status)
    THEN pc = "aborted" /\ exitCode = 1 /\ i = Len(requests)
    ELSE ~(pc = "aborted" /\ cur.phase = "mkcol" /\ i = Len(requests))

C4_Witness ==
  /\ pc = "aborted"
  /\ requests # <<>>
  /\ Last(requests).method = "MKCOL"
  /\ Last(requests).status = 500
  /\ \E i, j, k \in 1..Len(requests) :
       /\ i < j /\ j < k
       /\ requests[i].method = "MKCOL" /\ requests[i].status = 405
       /\ requests[j].method = "MKCOL" /\ requests[j].status = 200
       /\ requests[k].method = "PUT" /\ requests[k].local = requests[i].local
       /\ requests[j].local = requests[i].local

\* C5: a step has failed when the process has exited with an error, when a
\* record could not be read, or when the last response is an error the code
\* raises on.  From then on no request is issued and no remote object
\* changes, and the failing step itself leaves the remote objects as the
\* earlier PUTs wrote them.
RunFailed ==
  \/ pc = "aborted"
  \/ cur.phase = "read"
  \/ /\ requests # <<>>
     /\ ErrorStatus(Last(requests).status)
     /\ ~(Last(requests).method = "MKCOL" /\ Last(requests).status = 405)

C5_FailFastNoRollback ==
  [][ /\ RunFailed' => (RunFailed \/ remote' = remote)
      /\ RunFailed => /\ RunFailed'
                      /\ requests' = requests
                      /\ remote' = remote ]_vars

C5_Witness ==
  /\ pc = "aborted"
  /\ remote # {}
  /\ Last(requests).method = "PUT"
  /\ Last(requests).status = 500
  /\ cat = "teams"
  /\ relevant_images.images # <<>>

\* C6 as claimed: a git command that exits non-zero aborts the run, unless it
\* is the local-mode lookup of the tracking branch, after which the run goes
\* on to the next command.
C6_OnlyLookupTolerated ==
  \A i \in 1..Len(cmds) :
    cmds[i].exit # 0 =>
      IF cmds[i].cmd = "rev-parse @{u}"
      THEN i < Len(cmds)
      ELSE pc = "aborted" /\ exitCode = 1 /\ i = Len(cmds)

\* C7: a logsheet or team record without the id or the version key aborts the
\* run in the step that reads it: no request has been or is issued for that
\* file, and the remote objects are as they were.
LacksKey(data) ==
  data # NoData /\ ~("id" \in DOMAIN data /\ "version" \in DOMAIN data)

C7_MissingFieldAborts ==
  [][ (cur' # cur /\ cur'.phase # "idle" /\ LacksKey(cur'.data)) =>
        /\ pc' = "aborted"
        /\ exitCode' = 1
        /\ requests' = requests
        /\ remote' = remote
        /\ \A i \in 1..Len(requests') : requests'[i].local # cur'.local ]_vars

C7_Witness ==
  /\ pc = "aborted"
  /\ cur.phase = "read"
  /\ "version" \notin DOMAIN cur.data
  /\ "id" \in DOMAIN cur.data
  /\ remote # {}
  /\ Rule2(cur.local)

\* C8: when no path of the change set is a logsheet, a team or a new image,
\* the run prints that there is nothing to upload, issues no request and
\* exits with status 0.
C8_NothingToUpload ==
  ( /\ PastSelection
    /\ \A p \in Members(changed_files) \cup Members(new_files) :
         FirstMatch(p) \notin {"logsheets", "teams"}
    /\ \A p \in Members(new_files) : FirstMatch(p) # "images" )
  => /\ pc = "done"
     /\ exitCode = 0
     /\ requests = <<>>
     /\ remote = {}
     /\ Last(stdout).line = "No relevant files"

C8_Witness ==
  /\ pc = "done"
  /\ exitCode = 0
  /\ Last(stdout).line = "No relevant files"
  /\ \E p \in Members(changed_files) : Rule3(p)
  /\ new_files # <<>>

\* C9: a PUT to a path with a parent directory comes right after one MKCOL
\* for every prefix of that directory, from the root segment to the leaf, all
\* for the same file and every one answered with a status create_directory
\* accepts (201, 405, or a status that is no 4xx or 5xx error); the file has
\* no other MKCOL.
ParentDir(p) ==
  LET I == { i \in 1..Len(p) : p[i] = "/" }
  IN  IF I = {} THEN <<>>
      ELSE SubSeq(p, 1, (CHOOSE i \in I : \A j \in I : j <= i) - 1)

DirPrefixes(dir) ==
  LET cuts == { i - 1 : i \in { k \in 1..Len(dir) : dir[k] = "/" } }
                \cup {Len(dir)}
      nth(m) == CHOOSE c \in cuts :
                  Cardinality({ d \in cuts : d < c }) = m - 1
  IN  [m \in 1..Cardinality(cuts) |-> SubSeq(dir, 1, nth(m))]

AcceptedStatus(status) == status \in {201, 405} \/ ~ErrorStatus(status)

C9_DirectoriesBeforePut ==
  \A j \in PutIndexes :
    ParentDir(requests[j].path) # <<>> =>
      LET D == DirPrefixes(ParentDir(requests[j].path))
          n == Len(D)
      IN  /\ j > n
          /\ \A m \in 1..n :
               /\ requests[j - n + m - 1].method = "MKCOL"
               /\ requests[j - n + m - 1].path = D[m]
               /\ requests[j - n + m - 1].local = requests[j].local
               /\ AcceptedStatus(requests[j - n + m - 1].status)
          /\ Cardinality({ i \in MkcolIndexes :
                             requests[i].local = requests[j].local }) = n

C9_Witness ==
  /\ pc = "done"
  /\ \E j \in PutIndexes :
       /\ Len(DirPrefixes(ParentDir(requests[j].path))) = 2
       /\ requests[j - 1].status = 405
       /\ requests[j - 2].status = 201
  /\ \E j \in PutIndexes :
       Len(DirPrefixes(ParentDir(requests[j].path))) = 1

\* C10: every PUT goes to the remote path built for its file
\* (logsheets/{id}/{version}.json, teams/{id}/{version}.json,
\* images/{basename}); when the run ends without error every selected file
\* has had exactly one PUT, there is no other PUT, and the counts of the
\* summary line are the numbers of PUTs of each category.
BuiltRemotePath(local, data) ==
  IF Rule1(local)
  THEN <<"logsheets", "/">> \o data.id \o <<"/">> \o data.version
         \o <<".json">>
  ELSE IF Rule2(local)
  THEN <<"teams", "/">> \o data.id \o <<"/">> \o data.version \o <<".json">>
  ELSE <<"images", "/">>
         \o SubSeq(local, Len(ParentDir(local)) + 2, Len(local))

PutsOf(S) == Cardinality({ i \in PutIndexes : requests[i].local \in S })

RunComplete ==
  LET logsheets == Members(relevant_json.logsheets)
      teams == Members(relevant_json.teams)
      images == Members(relevant_images.images)
  IN  /\ \A f \in logsheets \cup teams \cup images : PutsOf({f}) = 1
      /\ \A i \in PutIndexes :
           requests[i].local \in logsheets \cup teams \cup images
      /\ \A n \in 1..Len(stdout) :
           stdout[n].line = "Found" =>
             /\ stdout[n].logsheets = PutsOf(logsheets)
             /\ stdout[n].teams = PutsOf(teams)
             /\ stdout[n].images = PutsOf(images)
             /\ stdout[n].total = Cardinality(PutIndexes)
      /\ requests # <<>> => \E n \in 1..Len(stdout) : stdout[n].line = "Found"

C10_OnePutPerFile ==
  [][ /\ (Len(requests') > Len(requests) /\ Last(requests').method = "PUT")
        => /\ Last(requests').local = cur.local
           /\ Last(requests').path = BuiltRemotePath(cur.local, cur.data)
      /\ (pc' = "done" /\ exitCode' = 0) => RunComplete' ]_vars

C10_Witness ==
  /\ pc = "done"
  /\ exitCode = 0
  /\ Cardinality(PutIndexes) >= 3
  /\ \E i \in PutIndexes :
       /\ requests[i].local = <<"images", "/", "s", "/", "y", ".json">>
       /\ requests[i].path = <<"images", "/", "y", ".json">>
  /\ \E i \in PutIndexes :
       requests[i].path = <<"logsheets", "/", "A", "/", "1", ".json">>

====
